---- MODULE Spec2Model ----
(***************************************************************************)
(* Knight's Isolation: the bitboard game state of                          *)
(* starter/isolation/t_isolation.py and the alpha-beta agent of            *)
(* starter/my_custom_player.py.                                            *)
(*                                                                         *)
(* The bitboard is a Python int of unbounded width; it is modelled as the  *)
(* set of its set bit positions, so  board & (1 << c)  is  c \in board     *)
(* and  board ^ (1 << c)  is the symmetric difference with {c}.            *)
(* float("inf") and float("-inf") are the integers PosInf and NegInf,      *)
(* which lie outside the range of every mobility score.                    *)
(*                                                                         *)
(* Every game starts from Isolation() and advances by result() only: by    *)
(* the moves of a few recorded games (Replay) and by any legal move off    *)
(* them (Move, Play), of which a game makes a bounded number.  An          *)
(* exception that escapes result() or the agent ends the program: such a   *)
(* state has no successor.  The agent may be asked for a move in every     *)
(* state of a game, the two opening positions included.                    *)
(*                                                                         *)
(* The recursive search is written with Bind, which evaluates a value once *)
(* and hands it on, as an assignment to a local does in the source.        *)
(***************************************************************************)
EXTENDS Integers, Sequences, FiniteSets, TLC

\* ------------------------------------------------------------------------
\* Board geometry
\* ------------------------------------------------------------------------
WIDTH == 11
HEIGHT == 9
SIZE == (WIDTH + 2) * HEIGHT - 2

\* Python's None (an unset location, an undefined move or value)
None == 0 - 9999

PosInf == 1000
NegInf == 0 - 1000

RECURSIVE BlankBoardRowsNoPadding(_)
\* mutant: every row is WIDTH + 2 open cells, no sentinel columns
BlankBoardRowsNoPadding(n) ==
    IF n = 0 THEN {}
    ELSE {b + (WIDTH + 2) : b \in BlankBoardRowsNoPadding(n - 1)} \cup (0 .. WIDTH + 1)

RECURSIVE BlankBoardRows(_)
\* the loop  _BLANK_BOARD = (_BLANK_BOARD << (_WIDTH + 2)) | row
BlankBoardRows(n) ==
    IF n = 0 THEN {}
    ELSE {b + (WIDTH + 2) : b \in BlankBoardRows(n - 1)} \cup (0 .. WIDTH - 1)

BLANK_BOARD == BlankBoardRows(HEIGHT)

S == 0 - WIDTH - 2
N == WIDTH + 2
W == 1
E == 0 - 1

NNE == N + N + E
ENE == E + N + E
ESE == E + S + E
SSE == S + S + E
SSW == S + S + W
WSW == W + S + W
WNW == W + N + W
NNW == N + N + W

\* iteration order of the IntEnum
Action == <<NNE, ENE, ESE, SSE, SSW, WSW, WNW, NNW>>

ACTIONSET == {Action[i] : i \in 1 .. Len(Action)}

Range(seq) == {seq[i] : i \in 1 .. Len(seq)}

\* ------------------------------------------------------------------------
\* Isolation: a state is a record [board, ply_count, locs]
\* ------------------------------------------------------------------------
Isolation(b, p, l) == [board |-> b, ply_count |-> p, locs |-> l]

player(s) == s.ply_count % 2

\* locs is a Python tuple indexed from 0
LocOf(s, player_id) == s.locs[player_id + 1]

liberties(s, loc) ==
    LET cells == IF loc = None
                 THEN [i \in 1 .. SIZE |-> i - 1]
                 ELSE [i \in 1 .. Len(Action) |-> loc + Action[i]]
    IN SelectSeq(cells, LAMBDA c : c >= 0 /\ c \in s.board)

\* Python's any(): some element is truthy; the integer 0 is falsy
any(seq) == \E i \in 1 .. Len(seq) : seq[i] # 0

has_liberties(s, player_id) == any(liberties(s, LocOf(s, player_id)))

actions(s) ==
    LET loc == LocOf(s, player(s))
    IN IF loc = None
       THEN liberties(s, loc)
       ELSE SelectSeq(Action, LAMBDA a : (a + loc) >= 0 /\ (a + loc) \in s.board)

\* mutant: the target cell is left open (the board is not updated)
result_keeps_cell_open(s, action) ==
    LET player_location == LocOf(s, player(s))
        target == action + (IF player_location = None THEN 0 ELSE player_location)
    IN IF ~(player_location = None \/ action \in ACTIONSET)
       THEN [err |-> "AssertionError", state |-> s]
       ELSE IF target < 0
       THEN [err |-> "ValueError", state |-> s]
       ELSE IF target \notin s.board
       THEN [err |-> "RuntimeError", state |-> s]
       ELSE [err |-> "none",
             state |-> Isolation(s.board,
                                 s.ply_count + 1,
                                 IF player(s) # 0
                                 THEN <<s.locs[1], target>>
                                 ELSE <<target, s.locs[2]>>)]

\* mutant: the target becomes the location of the player who is not moving
result_moves_opponent(s, action) ==
    LET player_location == LocOf(s, player(s))
        target == action + (IF player_location = None THEN 0 ELSE player_location)
    IN IF ~(player_location = None \/ action \in ACTIONSET)
       THEN [err |-> "AssertionError", state |-> s]
       ELSE IF target < 0
       THEN [err |-> "ValueError", state |-> s]
       ELSE IF target \notin s.board
       THEN [err |-> "RuntimeError", state |-> s]
       ELSE [err |-> "none",
             state |-> Isolation((s.board \ {target}) \cup ({target} \ s.board),
                                 s.ply_count + 1,
                                 IF player(s) # 0
                                 THEN <<target, s.locs[2]>>
                                 ELSE <<s.locs[1], target>>)]

\* result(): err names the exception raised, "none" when a state is returned
result(s, action) ==
    LET player_location == LocOf(s, player(s))
        target == action + (IF player_location = None THEN 0 ELSE player_location)
    IN IF ~(player_location = None \/ action \in ACTIONSET)
       THEN [err |-> "AssertionError", state |-> s]
       ELSE IF target < 0
       THEN [err |-> "ValueError", state |-> s]
       ELSE IF target \notin s.board
       THEN [err |-> "RuntimeError", state |-> s]
       ELSE [err |-> "none",
             state |-> Isolation((s.board \ {target}) \cup ({target} \ s.board),
                                 s.ply_count + 1,
                                 IF player(s) # 0
                                 THEN <<s.locs[1], target>>
                                 ELSE <<target, s.locs[2]>>)]

\* mutant: the game is over only when neither player can move
terminal_test_needs_both(s) == ~(has_liberties(s, 0) \/ has_liberties(s, 1))

terminal_test(s) == ~(has_liberties(s, 0) /\ has_liberties(s, 1))

\* mutant: the winner is decided without regard to whose utility is asked
utility_ignores_perspective(s, player_id) ==
    IF ~terminal_test(s) THEN 0
    ELSE IF has_liberties(s, player(s)) THEN PosInf ELSE NegInf

\* mutant: the loser's utility is 0
utility_zero_for_loser(s, player_id) ==
    IF ~terminal_test(s) THEN 0
    ELSE LET player_id_is_active == (player_id = player(s))
             active_has_liberties == has_liberties(s, player(s))
             player_id_wins == (active_has_liberties = player_id_is_active)
         IN IF player_id_wins THEN PosInf ELSE 0

utility(s, player_id) ==
    IF ~terminal_test(s) THEN 0
    ELSE LET player_id_is_active == (player_id = player(s))
             active_has_liberties == has_liberties(s, player(s))
             player_id_wins == (active_has_liberties = player_id_is_active)
         IN IF player_id_wins THEN PosInf ELSE NegInf

\* ------------------------------------------------------------------------
\* CustomPlayer: mobility score and alpha-beta search
\* A search call returns [val, move, rand, err, deep]: rand says that move is
\* random.choice(state.actions()), err names an exception that escaped, deep
\* is the deepest nesting of get_max/get_min calls made below this call.
\* ------------------------------------------------------------------------
score_state(s, player_id) ==
    LET the_other_player == 1 - player_id
        num_my_moves == liberties(s, LocOf(s, player_id))
        num_opponent_moves == liberties(s, LocOf(s, the_other_player))
    IN Len(num_my_moves) - Len(num_opponent_moves)

Ret(v, m) == [val |-> v, move |-> m, rand |-> FALSE, err |-> "none", deep |-> 0]

Raise(e) == [val |-> None, move |-> None, rand |-> FALSE, err |-> e, deep |-> 0]

\* F applied to the value of v, with v evaluated once (an assignment to a local)
Bind(v, F(_)) == CHOOSE y \in {F(x) : x \in {v}} : TRUE

RECURSIVE get_max(_, _, _, _, _)
RECURSIVE get_min(_, _, _, _, _)
RECURSIVE MaxLoop(_, _, _, _, _, _, _)
RECURSIVE MinLoop(_, _, _, _, _, _, _)

\* the locals after one pass of a loop body; done: the pass returned ret
Pass(a, b, v, m) ==
    [done |-> FALSE, ret |-> Ret(v, m), alpha |-> a, beta |-> b, val |-> v, move |-> m,
     deep |-> 0]

Return(r) ==
    [done |-> TRUE, ret |-> r, alpha |-> None, beta |-> None, val |-> None, move |-> None,
     deep |-> 0]

\* the pass t of a loop whose calls so far nested d deep
Deeper(t, d) == [t EXCEPT !.deep = d, !.ret.deep = d]

Max2(x, y) == IF x > y THEN x ELSE y

\* mutant: the cutoff test compares with alpha instead of beta
MaxUpdateCutsAtAlpha(action, alpha, beta, current_max_value, current_max_move, min_value) ==
    LET take == current_max_value = None \/ min_value > current_max_value
        new_value == IF take THEN min_value ELSE current_max_value
        new_move == IF take THEN action ELSE current_max_move
        new_alpha == IF new_value > alpha THEN new_value ELSE alpha
    IN IF new_value >= new_alpha
       THEN Return(Ret(new_value, new_move))
       ELSE Pass(new_alpha, beta, new_value, new_move)

\* mutant: an action whose value equals the best so far replaces it
MaxUpdateTakesTies(action, alpha, beta, current_max_value, current_max_move, min_value) ==
    LET take == current_max_value = None \/ min_value >= current_max_value
        new_value == IF take THEN min_value ELSE current_max_value
        new_move == IF take THEN action ELSE current_max_move
        new_alpha == IF new_value > alpha THEN new_value ELSE alpha
    IN IF new_value >= beta
       THEN Return(Ret(new_value, new_move))
       ELSE Pass(new_alpha, beta, new_value, new_move)

\* lines 93-101 of get_max, once get_min has returned min_value for action
MaxUpdate(action, alpha, beta, current_max_value, current_max_move, min_value) ==
    LET take == current_max_value = None \/ min_value > current_max_value
        new_value == IF take THEN min_value ELSE current_max_value
        new_move == IF take THEN action ELSE current_max_move
        new_alpha == IF new_value > alpha THEN new_value ELSE alpha
    IN IF new_value >= beta
       THEN Return(Ret(new_value, new_move))
       ELSE Pass(new_alpha, beta, new_value, new_move)

\* one pass of the body of the for loop of get_max
MaxBody(s, action, alpha, beta, remaining_depth, current_max_value, current_max_move, pid, deep) ==
    Bind(result(s, action), LAMBDA next :
       IF next.err # "none" THEN Return(Raise(next.err))
       ELSE Bind(get_min(next.state, alpha, beta, remaining_depth - 1, pid), LAMBDA r :
               IF r.err # "none" THEN Return(Raise(r.err))
               ELSE IF r.val = None THEN Return(Raise("TypeError"))
               ELSE Deeper(MaxUpdate(action, alpha, beta, current_max_value,
                                     current_max_move, r.val),
                           Max2(deep, r.deep + 1))))

\* the passes lo .. hi of the for loop of get_max, entered with the locals t:
\* the first half of the passes, then (unless one of them returned) the rest.
\* Splitting in halves keeps the nesting logarithmic in the 99 opening moves.
MaxLoop(s, acts, lo, hi, t, remaining_depth, pid) ==
    IF lo > hi THEN t
    ELSE IF lo = hi
    THEN MaxBody(s, acts[lo], t.alpha, t.beta, remaining_depth, t.val, t.move, pid,
                 t.deep)
    ELSE Bind(MaxLoop(s, acts, lo, (lo + hi) \div 2, t, remaining_depth, pid),
              LAMBDA u : IF u.done THEN u
                         ELSE MaxLoop(s, acts, (lo + hi) \div 2 + 1, hi, u,
                                      remaining_depth, pid))

\* mutant: the random choice is made at a losing terminal node
get_max_choice_when_losing(s, alpha, beta, remaining_depth, pid) ==
    IF terminal_test(s)
    THEN Bind(utility(s, pid), LAMBDA util :
            IF util < 0
            THEN IF Len(actions(s)) = 0
                 THEN Raise("IndexError")
                 ELSE [val |-> util, move |-> None, rand |-> TRUE, err |-> "none", deep |-> 0]
            ELSE Ret(util, None))
    ELSE IF remaining_depth = 0
    THEN Ret(score_state(s, pid), None)
    ELSE Bind(actions(s), LAMBDA acts :
            MaxLoop(s, acts, 1, Len(acts), Pass(alpha, beta, None, None),
                    remaining_depth, pid).ret)

get_max(s, alpha, beta, remaining_depth, pid) ==
    IF terminal_test(s)
    THEN Bind(utility(s, pid), LAMBDA util :
            IF util > 0
            THEN IF Len(actions(s)) = 0
                 THEN Raise("IndexError")
                 ELSE [val |-> util, move |-> None, rand |-> TRUE, err |-> "none", deep |-> 0]
            ELSE Ret(util, None))
    ELSE IF remaining_depth = 0
    THEN Ret(score_state(s, pid), None)
    ELSE Bind(actions(s), LAMBDA acts :
            MaxLoop(s, acts, 1, Len(acts), Pass(alpha, beta, None, None),
                    remaining_depth, pid).ret)

\* lines 116-122 of get_min, once get_max has returned max_value for action
MinUpdate(action, alpha, beta, current_min_value, current_min_move, max_value) ==
    LET take == current_min_value = None \/ max_value < current_min_value
        new_value == IF take THEN max_value ELSE current_min_value
        new_move == IF take THEN action ELSE current_min_move
        new_beta == IF new_value < beta THEN new_value ELSE beta
    IN IF new_value <= alpha
       THEN Return(Ret(new_value, new_move))
       ELSE Pass(alpha, new_beta, new_value, new_move)

\* mutant: get_max is called with the remaining depth not decremented
MinBodyKeepsDepth(s, action, alpha, beta, remaining_depth, current_min_value, current_min_move, pid, deep) ==
    Bind(result(s, action), LAMBDA next :
       IF next.err # "none" THEN Return(Raise(next.err))
       ELSE Bind(get_max(next.state, alpha, beta, remaining_depth, pid), LAMBDA r :
               IF r.err # "none" THEN Return(Raise(r.err))
               ELSE IF r.val = None THEN Return(Raise("TypeError"))
               ELSE Deeper(MinUpdate(action, alpha, beta, current_min_value,
                                     current_min_move, r.val),
                           Max2(deep, r.deep + 1))))

\* one pass of the body of the for loop of get_min
MinBody(s, action, alpha, beta, remaining_depth, current_min_value, current_min_move, pid, deep) ==
    Bind(result(s, action), LAMBDA next :
       IF next.err # "none" THEN Return(Raise(next.err))
       ELSE Bind(get_max(next.state, alpha, beta, remaining_depth - 1, pid), LAMBDA r :
               IF r.err # "none" THEN Return(Raise(r.err))
               ELSE IF r.val = None THEN Return(Raise("TypeError"))
               ELSE Deeper(MinUpdate(action, alpha, beta, current_min_value,
                                     current_min_move, r.val),
                           Max2(deep, r.deep + 1))))

\* the passes lo .. hi of the for loop of get_min, entered with the locals t:
\* the first half of the passes, then (unless one of them returned) the rest.
\* Splitting in halves keeps the nesting logarithmic in the 99 opening moves.
MinLoop(s, acts, lo, hi, t, remaining_depth, pid) ==
    IF lo > hi THEN t
    ELSE IF lo = hi
    THEN MinBody(s, acts[lo], t.alpha, t.beta, remaining_depth, t.val, t.move, pid,
                 t.deep)
    ELSE Bind(MinLoop(s, acts, lo, (lo + hi) \div 2, t, remaining_depth, pid),
              LAMBDA u : IF u.done THEN u
                         ELSE MinLoop(s, acts, (lo + hi) \div 2 + 1, hi, u,
                                      remaining_depth, pid))

\* mutant: the depth cutoff is tested before the terminal test
get_min_cutoff_first(s, alpha, beta, remaining_depth, pid) ==
    IF remaining_depth = 0
    THEN Ret(score_state(s, pid), None)
    ELSE IF terminal_test(s)
    THEN Ret(utility(s, pid), None)
    ELSE Bind(actions(s), LAMBDA acts :
            MinLoop(s, acts, 1, Len(acts), Pass(alpha, beta, None, None),
                    remaining_depth, pid).ret)

get_min(s, alpha, beta, remaining_depth, pid) ==
    IF terminal_test(s)
    THEN Ret(utility(s, pid), None)
    ELSE IF remaining_depth = 0
    THEN Ret(score_state(s, pid), None)
    ELSE Bind(actions(s), LAMBDA acts :
            MinLoop(s, acts, 1, Len(acts), Pass(alpha, beta, None, None),
                    remaining_depth, pid).ret)

minimax(s, max_depth, pid) ==
    Bind(s, LAMBDA state : get_max(state, NegInf, PosInf, max_depth, pid))

\* ------------------------------------------------------------------------
\* Bounds of the model
\* ------------------------------------------------------------------------
\* deepest search the agent is followed to once its piece is placed
MaxDepth == 3
\* deepest search the agent is followed to on its opening move
OpeningDepth == 2
\* moves a game may make off the recorded games while the agent takes part
MaxFree == 1
\* moves a game may make off the recorded games when only the host plays
MaxPlay == 4
\* cells chosen from on an opening move, by a player moving off the recorded
\* games and by the random choice of get_action
OpeningCells == {0, 57}
\* recorded games (all of their moves are legal, see Replay)
Lines == << <<16, 54, 25, -25, 11, -27, 15, 25, -25>>,
            <<0, 1, 15, 27, 25, -11, -27>>,
            <<16, 54, 25, -15, -15, -11>> >>
\* arguments a caller hands to result() besides the legal ones
BadInputs == ACTIONSET \cup {0, 1, 57, 200, 0 - 1}

\* ------------------------------------------------------------------------
\* State
\* ------------------------------------------------------------------------
VARIABLES
    board,      \* Isolation.board
    ply_count,  \* Isolation.ply_count
    locs,       \* Isolation.locs
    arg,        \* the argument of the last result() call
    err,        \* the exception that ended the host's last step, or "none"
    free,       \* number of moves made off the recorded games
    pc,         \* "idle", "get_action" (inside its loop), "minimax" (a direct
                \* call has returned), "play" (the host plays the game out)
                \* or the exception that ended the agent
    player_id,  \* CustomPlayer.player_id
    queue,      \* every value passed to self.queue.put, in order
    max_depth,  \* get_action's max_depth / minimax's parameter
    best_val,   \* minimax's best_val
    best_move   \* minimax's / get_action's best_move

vars == <<board, ply_count, locs, arg, err, free, pc, player_id, queue,
          max_depth, best_val, best_move>>

game == <<board, ply_count, locs, arg, err, free>>
agent == <<pc, player_id, queue, max_depth, best_val, best_move>>

\* the current game state as an Isolation value
St == Isolation(board, ply_count, locs)

RECURSIVE LineState(_, _)
\* the state after the first k moves of the recorded game line
LineState(line, k) ==
    IF k = 0 THEN Isolation(BLANK_BOARD, 0, <<None, None>>)
    ELSE result(LineState(line, k - 1), line[k]).state

Init ==
    /\ board = BLANK_BOARD
    /\ ply_count = 0
    /\ locs = <<None, None>>
    /\ arg = None
    /\ err = "none"
    /\ free = 0
    /\ pc = "idle"
    /\ player_id = None
    /\ queue = <<>>
    /\ max_depth = None
    /\ best_val = None
    /\ best_move = None

\* ------------------------------------------------------------------------
\* The host: calls of Isolation.result
\* ------------------------------------------------------------------------
\* state = state.result(a); an exception propagates and ends the program
CallResult(a) ==
    \E r \in {result(St, a)} :
       /\ arg' = a
       /\ err' = r.err
       /\ board' = r.state.board
       /\ ply_count' = r.state.ply_count
       /\ locs' = r.state.locs

\* the next move of a recorded game
Replay ==
    /\ pc = "idle" /\ err = "none"
    /\ \E line \in Range(Lines) :
          /\ ply_count < Len(line)
          /\ St = LineState(line, ply_count)
          /\ line[ply_count + 1] \in Range(actions(St))
          /\ CallResult(line[ply_count + 1])
    /\ UNCHANGED <<free, agent>>

\* any legal move, at most bound of them off the recorded games
MoveWithin(bound) ==
    /\ pc = "idle" /\ err = "none"
    /\ free < bound
    /\ \E a \in Range(actions(St)) :
          /\ LocOf(St, player(St)) = None => a \in OpeningCells
          /\ CallResult(a)
    /\ free' = free + 1
    /\ UNCHANGED agent

Move == MoveWithin(MaxFree)

Play == MoveWithin(MaxPlay)

\* a call of result() with an argument that is not a legal action
BadCall ==
    /\ pc = "idle" /\ err = "none"
    /\ \E a \in BadInputs :
          /\ a \notin Range(actions(St))
          /\ CallResult(a)
    /\ UNCHANGED <<free, agent>>

\* one pass of  while not state.terminal_test():
\*                  state = state.result(state.actions()[0])
PlayOut ==
    /\ pc \in {"idle", "play"} /\ err = "none"
    /\ ~terminal_test(St)
    /\ pc' = "play"
    /\ IF Len(actions(St)) = 0
       THEN /\ err' = "IndexError"
            /\ UNCHANGED <<board, ply_count, locs, arg>>
       ELSE CallResult(actions(St)[1])
    /\ UNCHANGED <<free, player_id, queue, max_depth, best_val, best_move>>

\* ------------------------------------------------------------------------
\* The agent
\* ------------------------------------------------------------------------
\* the deepest search followed from state s
Deepest(s) == IF LocOf(s, player(s)) = None THEN OpeningDepth ELSE MaxDepth

\* the moves a search result stands for
Moves(s, r) == IF r.rand THEN Range(actions(s)) ELSE {r.move}

\* get_action up to the loop: self.queue.put(random.choice(state.actions()))
GetAction ==
    /\ pc = "idle" /\ err = "none"
    /\ player_id' = player(St)
    /\ IF Len(actions(St)) = 0
       THEN /\ pc' = "IndexError"
            /\ UNCHANGED <<queue, max_depth, best_move>>
       ELSE /\ pc' = "get_action"
            /\ \E a \in Range(actions(St)) :
                  /\ LocOf(St, player(St)) = None => a \in OpeningCells
                  /\ queue' = <<a>>
            /\ max_depth' = 2
            /\ best_move' = None
    /\ UNCHANGED <<game, best_val>>

\* mutant: max_depth is incremented before the search instead of after the put
DeepenIncrementsFirst ==
    /\ pc = "get_action"
    /\ max_depth <= Deepest(St)
    /\ \E r \in {minimax(St, max_depth + 1, player_id)} :
          IF r.err # "none"
          THEN /\ pc' = r.err
               /\ UNCHANGED <<queue, max_depth, best_val, best_move>>
          ELSE /\ \E m \in Moves(St, r) :
                     /\ best_move' = m
                     /\ queue' = Append(queue, m)
               /\ best_val' = r.val
               /\ max_depth' = max_depth + 1
               /\ pc' = pc
    /\ UNCHANGED <<game, player_id>>

\* one pass of the while loop of get_action
Deepen ==
    /\ pc = "get_action"
    /\ max_depth <= Deepest(St)
    /\ \E r \in {minimax(St, max_depth, player_id)} :
          IF r.err # "none"
          THEN /\ pc' = r.err
               /\ UNCHANGED <<queue, max_depth, best_val, best_move>>
          ELSE /\ \E m \in Moves(St, r) :
                     /\ best_move' = m
                     /\ queue' = Append(queue, m)
               /\ best_val' = r.val
               /\ max_depth' = max_depth + 1
               /\ pc' = pc
    /\ UNCHANGED <<game, player_id>>

\* a direct call minimax(state, D)
Minimax ==
    /\ pc = "idle" /\ err = "none"
    /\ \E D \in 1 .. Deepest(St) :
          \E r \in {minimax(St, D, player(St))} :
             /\ max_depth' = D
             /\ IF r.err # "none"
                THEN /\ pc' = r.err
                     /\ UNCHANGED <<best_val, best_move>>
                ELSE /\ pc' = "minimax"
                     /\ best_val' = r.val
                     /\ \E m \in Moves(St, r) : best_move' = m
    /\ player_id' = player(St)
    /\ UNCHANGED <<game, queue>>

\* the host cuts get_action off, or the direct call's result is dropped
Stop ==
    /\ pc \in {"get_action", "minimax"}
    /\ pc' = "idle"
    /\ player_id' = None
    /\ queue' = <<>>
    /\ max_depth' = None
    /\ best_val' = None
    /\ best_move' = None
    /\ UNCHANGED game

Next == Replay \/ Move \/ BadCall \/ GetAction \/ Deepen \/ Minimax \/ Stop

Spec == Init /\ [][Next]_vars

\* the game alone: the host plays, no agent is asked
GameNext == Replay \/ Play \/ BadCall

GameSpec == Init /\ [][GameNext]_vars

\* a game played out by the host's loop from any state of GameSpec's kind; the
\* loop is the only thread of control, so a pass that can run does run
PlayNext == Replay \/ Move \/ BadCall \/ PlayOut

PlaySpec == Init /\ [][PlayNext]_vars /\ WF_vars(PlayOut)

\* get_action called in the states of the recorded games with no host to cut
\* it off: the loop is one thread of control, so a pass that can run does run
LiveNext == Replay \/ GetAction \/ Deepen

LiveSpec == Init /\ [][LiveNext]_vars /\ WF_vars(Deepen)

\* ------------------------------------------------------------------------
\* Vocabulary of the claims
\* ------------------------------------------------------------------------
Row(c) == c \div (WIDTH + 2)
Col(c) == c % (WIDTH + 2)

\* c is a cell of the WIDTH x HEIGHT board (not a sentinel, not off the board)
IsBoardCell(c) == c >= 0 /\ Row(c) < HEIGHT /\ Col(c) < WIDTH

Abs(x) == IF x < 0 THEN 0 - x ELSE x

\* board cells c and d are a knight's step apart
KnightStep(c, d) ==
    <<Abs(Row(c) - Row(d)), Abs(Col(c) - Col(d))>> \in {<<1, 2>>, <<2, 1>>}

Active == player(St)
ActiveLoc == LocOf(St, Active)
Legal == Range(actions(St))

\* the errors result() raises on purpose (lines 85 and 90)
InvalidMove == {"RuntimeError", "AssertionError"}

Min2(x, y) == IF x < y THEN x ELSE y

SetMax(S0) == CHOOSE x \in S0 : \A y \in S0 : y <= x
SetMin(S0) == CHOOSE x \in S0 : \A y \in S0 : x <= y

RECURSIVE MinimaxValue(_, _, _, _)
\* exhaustive minimax without pruning: utility at terminal nodes, the mobility
\* score at depth-exhausted nodes
MinimaxValue(s, depth, pid, maximizing) ==
    IF terminal_test(s) THEN utility(s, pid)
    ELSE IF depth = 0 THEN score_state(s, pid)
    ELSE Bind({result(s, a).state : a \in Range(actions(s))}, LAMBDA children :
           Bind({MinimaxValue(c, depth - 1, pid, ~maximizing) : c \in children},
                LAMBDA vals : IF maximizing THEN SetMax(vals) ELSE SetMin(vals)))

\* the exhaustive depth-(depth - 1) minimax values of the children of s, in the
\* order of actions()
ChildValues(s, depth, pid) ==
    Bind(actions(s), LAMBDA acts :
       [i \in 1 .. Len(acts) |->
           MinimaxValue(result(s, acts[i]).state, depth - 1, pid, FALSE)])

\* the value search gives a state at the depth cutoff
LeafValue(s, pid) == IF terminal_test(s) THEN utility(s, pid) ELSE score_state(s, pid)

\* ------------------------------------------------------------------------
\* Claims
\* ------------------------------------------------------------------------

\* C1: for every action a of actions(), result(a) raises nothing and returns a
\* state whose target cell is closed, whose ply_count is one more, in which the
\* mover stands on the target and the other player where it stood.
C1_ResultOfLegalAction ==
    \A a \in Legal :
        LET target == IF ActiveLoc = None THEN a ELSE ActiveLoc + a
            r == result(St, a)
        IN /\ r.err = "none"
           /\ target \notin r.state.board
           /\ r.state.ply_count = ply_count + 1
           /\ LocOf(r.state, Active) = target
           /\ LocOf(r.state, 1 - Active) = LocOf(St, 1 - Active)

\* a legal knight move has been applied in mid-game
C1_Witness ==
    /\ ply_count >= 3 /\ err = "none" /\ arg \in ACTIONSET
    /\ LocOf(St, 1 - Active) \notin board
    /\ Len(actions(St)) > 0

\* C2: terminal_test() is true exactly when one of the players has an empty
\* list of liberties; a lone liberty at cell 0 still counts.
C2_TerminalIffNoLiberties ==
    terminal_test(St) <=> (\/ Len(liberties(St, LocOf(St, 0))) = 0
                           \/ Len(liberties(St, LocOf(St, 1))) = 0)

\* C3: with the active piece placed, actions() is exactly the offsets leading
\* to an open board cell a knight's step away, each once; with it unset,
\* actions() is exactly the open board cells.
C3_ActionsAreKnightSteps ==
    /\ Cardinality(Legal) = Len(actions(St))
    /\ IF ActiveLoc = None
       THEN Legal = {c \in 0 .. (WIDTH + 2) * HEIGHT : IsBoardCell(c) /\ c \in board}
       ELSE Legal = {a \in ACTIONSET : /\ IsBoardCell(ActiveLoc + a)
                                       /\ (ActiveLoc + a) \in board
                                       /\ KnightStep(ActiveLoc, ActiveLoc + a)}

\* the active piece stands in the first column, where four offsets leave the
\* board sideways, and still has moves
C3_Witness ==
    /\ ActiveLoc # None /\ Col(ActiveLoc) = 0 /\ Row(ActiveLoc) > 1
    /\ Len(actions(St)) > 0 /\ Len(actions(St)) < 4

\* C4: utility is 0 for both players while terminal_test() is false; once it
\* is true one player has +infinity and the other -infinity.
C4_UtilityZeroSum ==
    IF terminal_test(St)
    THEN {utility(St, 0), utility(St, 1)} = {PosInf, NegInf}
    ELSE utility(St, 0) = 0 /\ utility(St, 1) = 0

\* a terminal state in which the player to move is stuck
C4_Witness ==
    /\ ply_count > 2 /\ terminal_test(St)
    /\ Len(liberties(St, ActiveLoc)) = 0
    /\ utility(St, Active) = NegInf

\* C5: in a terminal state the active player is the loser exactly when its
\* list of liberties is empty; with an open neighbouring cell left it wins.
C5_LoserIsStuckActive ==
    terminal_test(St) =>
        LET stuck == Len(liberties(St, ActiveLoc)) = 0
        IN /\ (utility(St, Active) = NegInf) <=> stuck
           /\ ~stuck => (utility(St, Active) = PosInf /\ utility(St, 1 - Active) = NegInf)

\* C6: every value get_action puts on the queue for a state in which the
\* agent has a legal action is one of the state's actions.
C6_ReportedAreLegal ==
    (pc = "get_action" /\ Len(actions(St)) > 0) =>
        \A i \in 1 .. Len(queue) : queue[i] \in Legal

\* C7: on a non-terminal state the alpha-beta value of minimax(s, D) is the
\* exhaustive minimax value at depth D, and the returned move leads to a child
\* of that value.
C7_AlphaBetaIsMinimax ==
    (pc = "minimax" /\ ~terminal_test(St)) =>
        /\ best_val = MinimaxValue(St, max_depth, player_id, TRUE)
        /\ best_move \in Legal
        /\ MinimaxValue(result(St, best_move).state, max_depth - 1, player_id, FALSE)
              = best_val

\* a depth-3 search has returned a finite value that is not the value of
\* the first action's child
C7_Witness ==
    /\ pc = "minimax" /\ max_depth = 3 /\ ~terminal_test(St)
    /\ best_val \notin {PosInf, NegInf}
    /\ best_move # actions(St)[1]
    /\ MinimaxValue(result(St, actions(St)[1]).state, 2, player_id, FALSE) < best_val

\* C8: with the active piece placed, result(a) raises Invalid-Move for each of
\* the eight offsets that is not in actions() and for every argument that is
\* not one of the eight offsets.
C8_IllegalIsInvalidMove ==
    ActiveLoc # None =>
        \A a \in BadInputs \ Legal : result(St, a).err \in InvalidMove

\* C9: the depth-1 search returns an action that maximizes the mobility score
\* of the resulting state.
C9_DepthOneMaximizesScore ==
    (pc = "minimax" /\ max_depth = 1 /\ ~terminal_test(St)) =>
        /\ best_move \in Legal
        /\ \A a \in Legal :
              score_state(result(St, best_move).state, player_id)
                 >= score_state(result(St, a).state, player_id)

\* C9 as amended: the depth-1 search returns an action that maximizes the
\* value of the resulting state, which is its utility when it is terminal and
\* its mobility score otherwise.
C9_DepthOneMaximizesLeafValue ==
    (pc = "minimax" /\ max_depth = 1 /\ ~terminal_test(St)) =>
        /\ best_move \in Legal
        /\ \A a \in Legal :
              LeafValue(result(St, best_move).state, player_id)
                 >= LeafValue(result(St, a).state, player_id)

\* the depth-1 search has chosen a move that wins at once although another
\* move has the higher mobility score
C9_Witness ==
    /\ pc = "minimax" /\ max_depth = 1 /\ ~terminal_test(St)
    /\ best_val = PosInf
    /\ \E a \in Legal :
          score_state(result(St, a).state, player_id)
             > score_state(result(St, best_move).state, player_id)

\* C10: get_action puts one legal action before any search has run; after it
\* the n-th put is the answer of the depth-(n+1) search, one put per depth.
C10_PutsFollowDepths ==
    pc = "get_action" =>
        /\ Len(queue) = max_depth - 1
        /\ queue[1] \in Legal
        /\ Len(queue) = 1 => (best_move = None /\ best_val = None)
        /\ \A n \in 1 .. Len(queue) - 1 :
              \E r \in {minimax(St, n + 1, player_id)} :
                 r.err = "none" /\ queue[n + 1] \in Moves(St, r)

\* the depth-2 and depth-3 answers have been put and differ
C10_Witness ==
    /\ pc = "get_action" /\ Len(queue) = 3
    /\ queue[2] # queue[3]
    /\ queue[1] # queue[2]

\* C11: the start state Isolation() has exactly WIDTH * HEIGHT open cells, the
\* indices below SIZE whose column is below WIDTH, ply_count 0 and both
\* locations unset; the opening move 57 gives locs[0] = 57, cell 57 closed,
\* ply_count 1 and player() = 1.
C11_StartStateAndOpening ==
    /\ ply_count = 0 =>
          /\ Cardinality(board) = WIDTH * HEIGHT
          /\ board = {c \in 0 .. SIZE - 1 : Col(c) < WIDTH}
          /\ locs = <<None, None>>
          /\ result(St, 57).err = "none"
    /\ (ply_count = 1 /\ arg = 57 /\ err = "none") =>
          /\ locs = <<57, None>>
          /\ board = {c \in 0 .. SIZE - 1 : Col(c) < WIDTH} \ {57}
          /\ player(St) = 1

\* the opening move 57 has been applied to the start state
C11_Witness ==
    /\ ply_count = 1 /\ arg = 57 /\ err = "none"
    /\ LocOf(St, 0) = 57

\* C12: every location that is set is a cell of the board whose bit in board
\* is 0.
C12_LocationsAreClosedCells ==
    \A p \in {0, 1} :
        LocOf(St, p) # None =>
            (IsBoardCell(LocOf(St, p)) /\ LocOf(St, p) \notin board)

\* both pieces are placed and each has moved off its opening cell
C12_Witness ==
    /\ ply_count >= 4 /\ err = "none" /\ free >= 2
    /\ LocOf(St, 0) # None /\ LocOf(St, 1) # None
    /\ Cardinality(board) = WIDTH * HEIGHT - ply_count

\* C13: on a non-terminal state the move minimax(s, D) returns is the first
\* action, in the order of actions(), whose child has the maximal exhaustive
\* depth-(D-1) minimax value.
C13_FirstMaximalAction ==
    (pc = "minimax" /\ ~terminal_test(St)) =>
        \E vals \in {ChildValues(St, max_depth, player_id)} :
           \E i \in 1 .. Len(vals) :
              /\ best_move = actions(St)[i]
              /\ \A j \in 1 .. Len(vals) : vals[j] <= vals[i]
              /\ \A j \in 1 .. i - 1 : vals[j] < vals[i]

\* a depth-3 search has returned an action that is neither the first nor the
\* last of those whose child has the maximal value
C13_Witness ==
    /\ pc = "minimax" /\ max_depth = 3 /\ ~terminal_test(St)
    /\ best_val \notin {PosInf, NegInf}
    /\ best_move # actions(St)[1]
    /\ \E vals \in {ChildValues(St, max_depth, player_id)} :
          \E i, j \in 1 .. Len(vals) :
             /\ best_move = actions(St)[i]
             /\ i < j
             /\ vals[j] = vals[i]

\* C14: a search from a non-terminal state on the agent's turn raises no
\* error, at any depth: no result() call inside it fails, no random choice is
\* made from an empty list, no node hands an undefined value to its parent;
\* the search returns a defined value and a legal move.
C14_SearchRaisesNothing ==
    ~terminal_test(St) =>
        /\ pc \in {"idle", "get_action", "minimax"}
        /\ pc = "minimax" => (best_val # None /\ best_move \in Legal)
        /\ pc = "get_action" => \A i \in 1 .. Len(queue) : queue[i] \in Legal

\* the state two plies below s after actions a and b
Grandchild(s, a, b) == result(result(s, a).state, b).state

\* a search of depth 2 or more has returned from a non-terminal state after
\* passing through a terminal node the agent wins, where the random choice
\* is made
C14_Witness ==
    /\ pc = "minimax" /\ max_depth >= 2 /\ ~terminal_test(St)
    /\ \E a \in Legal :
          /\ ~terminal_test(result(St, a).state)
          /\ \E b \in Range(actions(result(St, a).state)) :
                /\ terminal_test(Grandchild(St, a, b))
                /\ utility(Grandchild(St, a, b), player_id) = PosInf

C16_LocationsOnlyAdvance ==
    /\ [][\A p \in {0, 1} :
            /\ locs[p + 1] # None => locs'[p + 1] # None
            /\ locs'[p + 1] # locs[p + 1] =>
                  /\ p = player(St)
                  /\ ply_count' = ply_count + 1
                  /\ locs'[p + 1] \in board
                  /\ locs'[p + 1] \notin board']_vars
    /\ []((locs[1] = None <=> ply_count = 0) /\ (locs[2] = None <=> ply_count <= 1))

\* the player who has just moved stands on a closed cell a knight's step arg
\* away from the closed cell it left, off the recorded games
C16_Witness ==
    /\ ply_count >= 4 /\ err = "none" /\ arg \in ACTIONSET /\ free > 0
    /\ LocOf(St, 1 - Active) \notin board
    /\ (LocOf(St, 1 - Active) - arg) \notin board
    /\ IsBoardCell(LocOf(St, 1 - Active) - arg)

\* C17: whenever terminal_test() is false, actions() is not empty, so the
\* loop that applies actions()[0] while the state is not terminal never
\* indexes an empty list.
C17_NonTerminalHasActions ==
    /\ ~terminal_test(St) => Len(actions(St)) > 0
    /\ Len(actions(St)) = 0 => terminal_test(St)
    /\ err # "IndexError"

\* the loop has played a game out to a state where the player to move has no
\* action
C17_Witness ==
    /\ pc = "play" /\ err = "none" /\ ply_count > 2 * HEIGHT
    /\ Len(actions(St)) = 0
    /\ terminal_test(St)

\* C18: the number of open cells plus ply_count is WIDTH * HEIGHT; every open
\* cell is an open cell of the start state (no sentinel, none at or above
\* SIZE); each result() changes exactly one bit of board.
C18_OneCellClosesPerPly ==
    /\ [](/\ Cardinality(board) + ply_count = WIDTH * HEIGHT
          /\ board \subseteq BLANK_BOARD
          /\ \A c \in board : c < SIZE /\ IsBoardCell(c))
    /\ [][IF ply_count' # ply_count
          THEN Cardinality((board \ board') \cup (board' \ board)) = 1
          ELSE board' = board]_vars

\* nine moves have been made, the last one onto a cell that is now closed
C18_Witness ==
    /\ ply_count = HEIGHT /\ err = "none"
    /\ Cardinality(board) = WIDTH * HEIGHT - HEIGHT
    /\ LocOf(St, 1 - Active) \notin board
    /\ LocOf(St, 1 - Active) \in BLANK_BOARD

\* C19: ply_count never exceeds WIDTH * HEIGHT; a state without actions is
\* terminal with a non-zero utility for both players; a game that is played
\* on comes to such an end.
C19_EveryPlayEnds ==
    /\ [](ply_count <= WIDTH * HEIGHT)
    /\ [](Len(actions(St)) = 0 =>
             (terminal_test(St) /\ utility(St, 0) # 0 /\ utility(St, 1) # 0))
    /\ [](pc = "play" => <>(terminal_test(St)))

\* a game of more than forty moves has ended with the player to move stuck
C19_Witness ==
    /\ pc = "play" /\ ply_count > 40
    /\ Len(actions(St)) = 0
    /\ utility(St, Active) = NegInf /\ utility(St, 1 - Active) = PosInf

\* C20: when both locations are set they are different cells.
C20_PlayersOnDifferentCells ==
    (LocOf(St, 0) # None /\ LocOf(St, 1) # None) => LocOf(St, 0) # LocOf(St, 1)

\* the opponent stands a knight's step from the player to move, and the
\* offset to its cell is not among the actions
C20_Witness ==
    /\ ActiveLoc # None /\ LocOf(St, 1 - Active) # None /\ err = "none"
    /\ KnightStep(ActiveLoc, LocOf(St, 1 - Active))
    /\ (LocOf(St, 1 - Active) - ActiveLoc) \in ACTIONSET \ Legal

====
